---- MODULE Spec2Model ----
(***************************************************************************)
(* Quiz generator and grader of rag.py (generate_quiz, grade_quiz and the  *)
(* helpers they call).  A Python str is a sequence of one-character        *)
(* strings, so that lower(), upper(), isalpha(), strip(), split() and the  *)
(* regular expressions of the source are computed character by character.  *)
(***************************************************************************)
EXTENDS Integers, Sequences, FiniteSets, TLC

(* ------------------------------ bounds --------------------------------- *)
\* largest number of questions requested
MaxN == 3
\* longest list of items, and of responses, handed to grade_quiz
MaxItems == 2
MaxResponses == 2
\* the largest k make_answer is called with, the most hits retrieve() gives it
MaxK == 3
MaxAnswerHits == 3

(* ------------------------- Python str methods -------------------------- *)
LowerLetters == <<"a","b","c","d","e","f","g","h","i","j","k","l","m","n","o","p","q","r","s","t","u","v","w","x","y","z">>
UpperLetters == <<"A","B","C","D","E","F","G","H","I","J","K","L","M","N","O","P","Q","R","S","T","U","V","W","X","Y","Z">>
Digits == <<"0","1","2","3","4","5","6","7","8","9">>

Range(f) == {f[i] : i \in DOMAIN f}

IndexIn(c, letters) == CHOOSE i \in DOMAIN letters : letters[i] = c

IsLower(c) == c \in Range(LowerLetters)
IsUpper(c) == c \in Range(UpperLetters)
IsLetter(c) == IsLower(c) \/ IsUpper(c)
IsDigit(c) == c \in Range(Digits)
\* \w of the re module
IsWordChar(c) == IsLetter(c) \/ IsDigit(c) \/ c = "_"
\* \s of the re module, and the characters str.strip() removes
IsSpace(c) == c \in {" ", "\n", "\t"}

LowerChar(c) == IF IsUpper(c) THEN LowerLetters[IndexIn(c, UpperLetters)] ELSE c
UpperChar(c) == IF IsLower(c) THEN UpperLetters[IndexIn(c, LowerLetters)] ELSE c

lower(s) == [i \in 1..Len(s) |-> LowerChar(s[i])]
upper(s) == [i \in 1..Len(s) |-> UpperChar(s[i])]
isalpha(s) == Len(s) > 0 /\ \A i \in 1..Len(s) : IsLetter(s[i])

\* s[i:] with a 1-based i
Drop(s, i) == SubSeq(s, i, Len(s))

RECURSIVE lstrip(_)
lstrip(s) == IF s # <<>> /\ IsSpace(Head(s)) THEN lstrip(Tail(s)) ELSE s
RECURSIVE rstrip(_)
rstrip(s) == IF s # <<>> /\ IsSpace(s[Len(s)]) THEN rstrip(SubSeq(s, 1, Len(s) - 1)) ELSE s
strip(s) == rstrip(lstrip(s))

\* s.startswith(p) at the 1-based position i
MatchAt(s, i, p) == /\ i >= 1
                    /\ i + Len(p) - 1 <= Len(s)
                    /\ SubSeq(s, i, i + Len(p) - 1) = p
startswith(s, p) == MatchAt(s, 1, p)
\* p in s
Contains(s, p) == \E i \in 1..(Len(s) + 1) : MatchAt(s, i, p)
\* first position of p in s; only used when Contains(s, p)
Find(s, p) == CHOOSE i \in 1..(Len(s) + 1) :
                 /\ MatchAt(s, i, p)
                 /\ \A j \in 1..(i - 1) : ~MatchAt(s, j, p)

\* len(s.split()): number of maximal runs of non-whitespace characters
WordCount(s) == Cardinality({i \in 1..Len(s) :
                    /\ ~IsSpace(s[i])
                    /\ (i = 1 \/ IsSpace(s[i - 1]))})

\* the subsequence of xs at the positions satisfying Keep
SelectAt(xs, Keep(_)) ==
    LET idx == SelectSeq([i \in 1..Len(xs) |-> i], Keep)
    IN [j \in 1..Len(idx) |-> xs[idx[j]]]

\* list(dict.fromkeys(xs)): first occurrences, in order
Dedup(xs) == SelectAt(xs, LAMBDA i : \A j \in 1..(i - 1) : xs[j] # xs[i])

(* ------------------------ constants of rag.py -------------------------- *)
_SENT_MIN == 55
_SENT_MAX == 200
SeenCap == 500
OpenThreshold == 45

SEC_TERMS == <<
  <<"f","i","r","e","w","a","l","l">>, <<"p","r","o","x","y">>, <<"v","p","n">>, <<"i","d","s">>, <<"i","p","s">>, <<"w","a","f">>, <<"n","a","t">>, <<"s","e","g","m","e","n","t","a","t","i","o","n">>, <<"z","e","r","o"," ","t","r","u","s","t">>,
  <<"e","n","c","r","y","p","t","i","o","n">>, <<"d","e","c","r","y","p","t","i","o","n">>, <<"c","i","p","h","e","r">>, <<"k","e","y">>, <<"n","o","n","c","e">>, <<"s","a","l","t">>, <<"h","a","n","d","s","h","a","k","e">>, <<"c","e","r","t","i","f","i","c","a","t","e">>,
  <<"a","u","t","h","e","n","t","i","c","a","t","i","o","n">>, <<"a","u","t","h","o","r","i","z","a","t","i","o","n">>, <<"a","c","c","o","u","n","t","i","n","g">>, <<"a","u","d","i","t","i","n","g">>, <<"i","n","t","e","g","r","i","t","y">>, <<"a","v","a","i","l","a","b","i","l","i","t","y">>, <<"c","o","n","f","i","d","e","n","t","i","a","l","i","t","y">>,
  <<"h","a","s","h">>, <<"m","a","c">>, <<"s","i","g","n","a","t","u","r","e">>, <<"t","l","s">>, <<"s","s","l">>, <<"h","t","t","p","s">>, <<"i","p","s","e","c">>, <<"s","s","h">>, <<"k","e","r","b","e","r","o","s">>, <<"s","a","m","l">>, <<"o","a","u","t","h">>,
  <<"d","d","o","s">>, <<"d","o","s">>, <<"p","h","i","s","h","i","n","g">>, <<"m","a","l","w","a","r","e">>, <<"r","a","n","s","o","m","w","a","r","e">>, <<"b","o","t","n","e","t">>, <<"m","i","t","m">>, <<"r","e","p","l","a","y">>,
  <<"s","a","n","d","b","o","x">>, <<"h","o","n","e","y","p","o","t">>, <<"s","i","e","m">>, <<"s","o","a","r">>, <<"e","d","r">>, <<"x","d","r">>, <<"a","n","t","i","v","i","r","u","s">>, <<"w","h","i","t","e","l","i","s","t","i","n","g">>, <<"b","l","a","c","k","l","i","s","t","i","n","g">>,
  <<"a","a","a">>, <<"r","a","d","i","u","s">>, <<"t","a","c","a","c","s">>, <<"b","a","s","t","i","o","n">>, <<"d","m","z">>, <<"s","u","b","n","e","t">>, <<"v","l","a","n">>, <<"q","o","s">>, <<"s","p","o","o","f","i","n","g">> >>

SEC_KEYWORDS == {
  <<"s","e","c","u","r","i","t","y">>, <<"s","e","c","u","r","e">>, <<"a","t","t","a","c","k">>, <<"a","t","t","a","c","k","s">>, <<"t","h","r","e","a","t">>, <<"r","i","s","k">>, <<"f","i","r","e","w","a","l","l">>, <<"v","p","n">>, <<"i","d","s">>, <<"i","p","s">>, <<"w","a","f">>,
  <<"e","n","c","r","y","p","t","i","o","n">>, <<"c","i","p","h","e","r">>, <<"k","e","y">>, <<"c","e","r","t","i","f","i","c","a","t","e">>, <<"t","l","s">>, <<"h","t","t","p","s">>, <<"i","p","s","e","c">>, <<"s","s","h">>,
  <<"a","u","t","h","e","n","t","i","c","a","t","i","o","n">>, <<"a","u","t","h","o","r","i","z","a","t","i","o","n">>, <<"i","n","t","e","g","r","i","t","y">>, <<"a","v","a","i","l","a","b","i","l","i","t","y">>, <<"c","o","n","f","i","d","e","n","t","i","a","l","i","t","y">>, <<"h","a","s","h">>, <<"m","a","c">>,
  <<"m","a","l","w","a","r","e">>, <<"p","h","i","s","h","i","n","g">>, <<"d","d","o","s">>, <<"m","i","t","m">>, <<"p","r","o","x","y">>, <<"s","e","g","m","e","n","t","a","t","i","o","n">>, <<"d","m","z">>, <<"s","i","e","m">>, <<"e","d","r">>, <<"x","d","r">> }

fallback == << <<"f","i","r","e","w","a","l","l">>, <<"v","p","n">>, <<"i","d","s">>, <<"i","p","s">>, <<"t","l","s">>, <<"h","a","s","h">>, <<"c","i","p","h","e","r">>, <<"n","o","n","c","e">>, <<"d","m","z">>, <<"p","r","o","x","y">>, <<"w","a","f">> >>

(* --------------------------- sentence curator -------------------------- *)
\* t.replace(a, b) for single characters
ReplaceChar(t, a, b) == [i \in 1..Len(t) |-> IF t[i] = a THEN b ELSE t[i]]

\* end of the maximal run of whitespace that starts at i; i - 1 when
\* there is none
SpaceRunEnd(t, i) ==
    LET stops == {j \in i..Len(t) : ~IsSpace(t[j])}
    IN IF stops = {} THEN (IF i > Len(t) THEN i - 1 ELSE Len(t)) ELSE (CHOOSE j \in stops : \A k \in stops : j <= k) - 1
\* the same for a run of digits
DigitRunEnd(t, i) ==
    LET stops == {j \in i..Len(t) : ~IsDigit(t[j])}
    IN IF stops = {} THEN (IF i > Len(t) THEN i - 1 ELSE Len(t)) ELSE (CHOOSE j \in stops : \A k \in stops : j <= k) - 1

Min(S) == CHOOSE m \in S : \A k \in S : m <= k

\* re.sub(r"\s{2,}", " ", t), from position i on: every maximal run of two
\* or more whitespace characters becomes one blank
RECURSIVE SquashSpaces(_, _)
SquashSpaces(t, i) ==
    LET starts == {k \in i..(Len(t) - 1) : IsSpace(t[k]) /\ IsSpace(t[k + 1])}
    IN IF starts = {} THEN Drop(t, i)
       ELSE LET k == Min(starts)
            IN SubSeq(t, i, k - 1) \o <<" ">> \o SquashSpaces(t, SpaceRunEnd(t, k) + 1)

\* (\w)-\s+(\w) matches at k
HyphenBreakAt(t, k) ==
    LET e == SpaceRunEnd(t, k + 2)
    IN /\ IsWordChar(t[k])
       /\ k + 1 <= Len(t) /\ t[k + 1] = "-"
       /\ e >= k + 2
       /\ e + 1 <= Len(t) /\ IsWordChar(t[e + 1])

\* re.sub(r"(\w)-\s+(\w)", r"\1\2", t), from position i on: leftmost
\* matches, not overlapping
RECURSIVE Dehyphenate(_, _)
Dehyphenate(t, i) ==
    LET starts == {k \in i..Len(t) : HyphenBreakAt(t, k)}
    IN IF starts = {} THEN Drop(t, i)
       ELSE LET k == Min(starts)
                e == SpaceRunEnd(t, k + 2)
            IN SubSeq(t, i, k) \o <<t[e + 1]>> \o Dehyphenate(t, e + 2)

\* \b\d+(?=[A-Za-z]) matches at k
DigitPrefixAt(t, k) ==
    LET e == DigitRunEnd(t, k)
    IN /\ e >= k
       /\ (k = 1 \/ ~IsWordChar(t[k - 1]))
       /\ e + 1 <= Len(t) /\ IsLetter(t[e + 1])

\* re.sub(r"\b\d+(?=[A-Za-z])", "", t), from position i on
RECURSIVE StripLeadingDigits(_, _)
StripLeadingDigits(t, i) ==
    LET starts == {k \in i..Len(t) : DigitPrefixAt(t, k)}
    IN IF starts = {} THEN Drop(t, i)
       ELSE LET k == Min(starts)
            IN SubSeq(t, i, k - 1) \o StripLeadingDigits(t, DigitRunEnd(t, k) + 1)

_normalize(text) ==
    LET t1 == ReplaceChar(text, "\n", " ")
        t2 == SquashSpaces(t1, 1)
        t3 == Dehyphenate(t2, 1)
        t4 == StripLeadingDigits(t3, 1)
    IN ReplaceChar(ReplaceChar(t4, "u2013", "-"), "u2014", "-")

\* the word w (lower-case letters) stands at position i of s between two \b,
\* compared without case (flags=re.I)
WordAt(s, i, w) == /\ MatchAt(lower(s), i, w)
                   /\ (i = 1 \/ ~IsWordChar(s[i - 1]))
                   /\ (i + Len(w) > Len(s) \/ ~IsWordChar(s[i + Len(w)]))

VerbWords == { <<"i","s">>, <<"a","r","e">>, <<"w","a","s">>, <<"w","e","r","e">>, <<"b","e">>, <<"b","e","i","n","g">>, <<"b","e","e","n">>, <<"h","a","s">>, <<"h","a","v","e">>, <<"h","a","d">>,
               <<"c","a","n">>, <<"c","o","u","l","d">>, <<"s","h","o","u","l","d">>, <<"w","o","u","l","d">>, <<"m","a","y">>, <<"m","i","g","h","t">>, <<"m","u","s","t">>, <<"d","o">>, <<"d","o","e","s">>, <<"d","i","d">>,
               <<"p","r","o","v","i","d","e">>, <<"u","s","e">>, <<"i","n","c","l","u","d","e">>, <<"s","u","p","p","o","r","t">>, <<"s","u","p","p","o","r","t","s">> }

_has_verb(s) == \E i \in 1..Len(s) : \E w \in VerbWords : WordAt(s, i, w)

_contains_keyword(s) == \E k \in SEC_KEYWORDS : Contains(lower(s), k)

\* re.split(r'(?<=[.!?])\s+', text)
RECURSIVE SplitSentences(_)
SplitSentences(text) ==
    LET cuts == {i \in 2..Len(text) : IsSpace(text[i]) /\ text[i - 1] \in {".", "!", "?"}}
    IN IF cuts = {} THEN <<text>>
       ELSE LET i == Min(cuts)
                e == SpaceRunEnd(text, i)
            IN <<SubSeq(text, 1, i - 1)>> \o SplitSentences(Drop(text, e + 1))

\* re.match(r"^(table|figure|fig\.|chapter|section)\b", s, flags=re.I)
IsCaption(s) ==
    \/ \E w \in { <<"t","a","b","l","e">>, <<"f","i","g","u","r","e">>, <<"c","h","a","p","t","e","r">>, <<"s","e","c","t","i","o","n">> } : WordAt(s, 1, w)
    \/ /\ MatchAt(lower(s), 1, <<"f","i","g",".">>)
       /\ Len(s) >= 5 /\ IsWordChar(s[5])

\* re.match(r"^\d+[\).\- ]", s)
IsNumberedBullet(s) ==
    LET e == DigitRunEnd(s, 1)
    IN e >= 1 /\ e + 1 <= Len(s) /\ s[e + 1] \in {")", ".", "-", " "}

KeepSentence(s) ==
    /\ s # <<>>
    /\ ~(startswith(s, <<"#">>) \/ startswith(s, <<"*">>) \/ startswith(s, <<"-">>))
    /\ ~IsCaption(s)
    /\ ~IsNumberedBullet(s)
    /\ ~(Len(s) < _SENT_MIN \/ Len(s) > _SENT_MAX)
    /\ _has_verb(s)
    /\ _contains_keyword(s)

_clean_sentences(text) ==
    LET sents == SplitSentences(_normalize(text))
        stripped == [i \in 1..Len(sents) |-> strip(sents[i])]
    IN SelectSeq(stripped, KeepSentence)

_extract_terms_from_sentence(s) ==
    SelectSeq(SEC_TERMS, LAMBDA t : Contains(lower(s), t))

(* ------------------------------ the corpus ----------------------------- *)
SentTls == <<"W","e","b"," ","b","r","o","w","s","e","r","s"," ","u","s","e"," ","T","L","S"," ","s","o"," ","t","h","a","t"," ","d","a","t","a"," ","i","s"," ","s","e","n","t"," ","s","a","f","e","l","y"," ","t","o"," ","s","e","r","v","e","r","s",".">>
SentFw == <<"A"," ","f","i","r","e","w","a","l","l"," ","i","s"," ","a"," ","d","e","v","i","c","e"," ","t","h","a","t"," ","f","i","l","t","e","r","s"," ","t","r","a","f","f","i","c"," ","b","y"," ","a"," ","s","e","t"," ","o","f"," ","r","u","l","e","s",".">>
SentPlain == <<"G","o","o","d"," ","s","e","c","u","r","i","t","y"," ","p","r","a","c","t","i","c","e"," ","s","h","o","u","l","d"," ","b","e"," ","r","e","v","i","e","w","e","d"," ","b","y"," ","s","t","a","f","f"," ","e","v","e","r","y"," ","y","e","a","r",".">>
SentMulti == <<"T","h","e"," ","f","i","r","e","w","a","l","l"," ","a","n","d"," ","t","h","e"," ","v","p","n"," ","g","a","t","e","w","a","y"," ","a","r","e"," ","p","l","a","c","e","d"," ","a","t"," ","t","h","e"," ","n","e","t","w","o","r","k"," ","e","d","g","e",".">>
SentUse == <<"W","e","b"," ","s","e","r","v","e","r","s"," ","u","s","e"," ","T","L","S"," ","t","o"," ","k","e","e","p"," ","u","s","e","r"," ","d","a","t","a"," ","s","a","f","e"," ","o","n"," ","t","h","e"," ","w","a","y"," ","t","o"," ","c","l","i","e","n","t","s",".">>

\* two usable sentences, the first with a short acronym
DocA == <<"W","e","b"," ","b","r","o","w","s","e","r","s"," ","u","s","e"," ","T","L","S"," ","s","o"," ","t","h","a","t"," ","d","a","t","a"," ","i","s"," ","s","e","n","t"," ","s","a","f","e","l","y"," ","t","o"," ","s","e","r","v","e","r","s",".","\n","A"," ","f","i","r","e","w","a","l","l"," ","i","s"," ","a"," ","d","e","v","i","c","e"," ","t","h","a","t"," ","f","i","l","t","e","r","s"," ","t","r","a","f","f","i","c"," ","b","y"," ","a"," ","s","e","t"," ","o","f"," ","r","u","l","e","s",".">>
\* OCR noise around the second sentence of DocA
DocB == <<"1","A"," ","f","i","r","e","-","\n","w","a","l","l"," ","i","s"," ","a"," ","d","e","v","i","c","e"," "," ","t","h","a","t"," ","f","i","l","t","e","r","s"," ","t","r","a","f","f","i","c"," ","b","y"," ","a"," ","s","e","t"," ","o","f"," ","r","u","l","e","s",".">>
\* a heading and a caption: nothing usable
DocC == <<"#"," ","C","h","a","p","t","e","r"," ","1","\n","T","a","b","l","e"," ","2"," ","l","i","s","t","s"," ","t","h","e"," ","p","o","r","t","s",".">>
\* a sentence without vocabulary term, a fragment, a sentence with two terms
DocD == <<"G","o","o","d"," ","s","e","c","u","r","i","t","y"," ","p","r","a","c","t","i","c","e"," ","s","h","o","u","l","d"," ","b","e"," ","r","e","v","i","e","w","e","d"," ","b","y"," ","s","t","a","f","f"," ","e","v","e","r","y"," ","y","e","a","r","."," ","-"," ","s","e","e"," ","n","o","t","e","s","."," ","T","h","e"," ","f","i","r","e","w","a","l","l"," ","a","n","d"," ","t","h","e"," ","v","p","n"," ","g","a","t","e","w","a","y"," ","a","r","e"," ","p","l","a","c","e","d"," ","a","t"," ","t","h","e"," ","n","e","t","w","o","r","k"," ","e","d","g","e",".">>
\* one sentence with a verb but none of the words _negate_sentence looks for
DocE == <<"W","e","b"," ","s","e","r","v","e","r","s"," ","u","s","e"," ","T","L","S"," ","t","o"," ","k","e","e","p"," ","u","s","e","r"," ","d","a","t","a"," ","s","a","f","e"," ","o","n"," ","t","h","e"," ","w","a","y"," ","t","o"," ","c","l","i","e","n","t","s",".">>

\* chunks of the index, as (document, metadata) pairs
HitA == <<DocA, [source |-> "a.md"]>>
HitB == <<DocB, [source |-> "b.pdf"]>>
HitC == <<DocC, [source |-> "a.md"]>>
\* no "source" in the metadata
HitD == <<DocD, [page |-> 3]>>
HitD2 == <<DocD, [source |-> "a.md"]>>
HitE == <<DocE, [source |-> "c.md"]>>

\* the ranked lists retrieve() hands back in the model
HitLists == { <<>>,                   \* empty index
              <<HitC>>,               \* hits, none with a usable sentence
              <<HitB>>,               \* one source with one sentence
              <<HitA>>,               \* one source with two sentences
              <<HitA, HitB>>,         \* two sources sharing a sentence
              <<HitC, HitD>>,         \* one hit dropped by curation
              <<HitA, HitD>>,         \* two sources, four sentences
              <<HitA, HitD2, HitB>>,  \* two hits of one source, then another
              <<HitE>> }              \* one sentence without auxiliary verb

DocUniverse == {DocA, DocB, DocC, DocD, DocE}

\* the longest list of hits
MaxHits == CHOOSE m \in {Len(hs) : hs \in HitLists} : \A hs \in HitLists : Len(hs) <= m

\* _clean_sentences and _extract_terms_from_sentence, tabulated over the corpus
Curated == [d \in DocUniverse |-> _clean_sentences(d)]
SentUniverse == UNION {Range(Curated[d]) : d \in DocUniverse}
TermsOf == [s \in SentUniverse |-> _extract_terms_from_sentence(s)]

\* d.get(key, default) of a dictionary
Get(d, key, default) == IF key \in DOMAIN d THEN d[key] ELSE default

(* ------------------------- Python values ------------------------------- *)
\* a value of a dynamically typed slot (an answer, a response)
None == [kind |-> "none", b |-> FALSE, s |-> <<>>]
PyBool(v) == [kind |-> "bool", b |-> v, s |-> <<>>]
PyStr(v) == [kind |-> "str", b |-> FALSE, s |-> v]

\* bool(v)
bool(v) == CASE v.kind = "none" -> FALSE
             [] v.kind = "bool" -> v.b
             [] v.kind = "str" -> v.s # <<>>

\* str(v)
str(v) == CASE v.kind = "none" -> <<"N","o","n","e">>
            [] v.kind = "bool" -> (IF v.b THEN <<"T","r","u","e">> ELSE <<"F","a","l","s","e">>)
            [] v.kind = "str" -> v.s

(* --------------------------- quiz generator ---------------------------- *)
NegationAnchors == { <<"i","s">>, <<"a","r","e">>, <<"w","a","s">>, <<"w","e","r","e">>, <<"c","a","n">>, <<"c","o","u","l","d">>, <<"s","h","o","u","l","d">>, <<"w","o","u","l","d">>,
                     <<"d","o">>, <<"d","o","e","s">>, <<"d","i","d">>, <<"h","a","s">>, <<"h","a","v","e">>, <<"h","a","d">> }

\* a negation that leaves the sentence as it is
_negate_sentence_Identity(s) == s

\* _negate_sentence
_negate_sentence(s) ==
    LET at == {i \in 1..Len(s) : \E w \in NegationAnchors : WordAt(s, i, w)}
    IN IF at # {}
       THEN LET start == Min(at)
                w == CHOOSE v \in NegationAnchors : WordAt(s, start, v)
                i == start + Len(w) - 1
            IN SubSeq(s, 1, i) \o <<" ","n","o","t">> \o Drop(s, i + 1)
       ELSE <<"I","t"," ","i","s"," ","n","o","t"," ","t","r","u","e"," ","t","h","a","t"," ">> \o <<LowerChar(s[1])>> \o Drop(s, 2)

\* pattern.sub("_____", sentence, count=1) of _pick_mask_span, for the term
\* random.choice picked
MaskStem(sentence, correct) ==
    LET i == Find(lower(sentence), correct)
    IN SubSeq(sentence, 1, i - 1) \o <<"_","_","_","_","_">> \o Drop(sentence, i + Len(correct))

\* the first loop of _distinct_opts, from pool[i] on
RECURSIVE PickDistractors(_, _, _, _)
PickDistractors(correct, pool_, i, distractors) ==
    IF i > Len(pool_) \/ Len(distractors) = 3 THEN distractors
    ELSE LET cand == pool_[i]
             seen_ == {lower(correct)} \cup {lower(distractors[j]) : j \in DOMAIN distractors}
         IN IF \/ lower(cand) \in seen_
               \/ lower(cand) = lower(correct)
               \/ WordCount(cand) > 3
            THEN PickDistractors(correct, pool_, i + 1, distractors)
            ELSE PickDistractors(correct, pool_, i + 1, Append(distractors, cand))

\* the second loop of _distinct_opts, from fallback[i] on
RECURSIVE FillFromFallback(_, _, _)
FillFromFallback(correct, i, distractors) ==
    IF i > Len(fallback) \/ Len(distractors) = 3 THEN distractors
    ELSE LET f == fallback[i]
             seen_ == {lower(correct)} \cup {lower(distractors[j]) : j \in DOMAIN distractors}
         IN IF lower(f) \notin seen_
            THEN FillFromFallback(correct, i + 1, Append(distractors, f))
            ELSE FillFromFallback(correct, i + 1, distractors)

\* the while loop of _distinct_opts: every list it can end with
RECURSIVE PadChoices(_)
PadChoices(opts) ==
    IF Len(opts) >= 4 THEN {opts}
    ELSE UNION { PadChoices(Append(opts, fallback[k])) :
                   k \in {j \in DOMAIN fallback :
                            lower(fallback[j]) \notin {lower(opts[m]) : m \in DOMAIN opts}} }

\* random.shuffle(xs): every order it can leave
Shuffles(xs) == { [i \in 1..Len(xs) |-> xs[f[i]]] : f \in Permutations(1..Len(xs)) }

nice(o) == IF isalpha(o) /\ Len(o) <= 4 THEN upper(o) ELSE o

\* every list _distinct_opts(correct, pool) can return
_distinct_opts(correct, pool_) ==
    LET distractors == FillFromFallback(correct, 1, PickDistractors(correct, pool_, 1, <<>>))
        opts == Dedup(<<correct>> \o SubSeq(distractors, 1, Min({3, Len(distractors)})))
    IN { [i \in 1..Len(sh) |-> nice(sh[i])] :
           sh \in UNION {Shuffles(padded) : padded \in PadChoices(opts)} }

\* every (correct, stem) _pick_mask_span(sentence) can return; empty when it
\* returns (None, None)
_pick_mask_span(sentence) ==
    LET terms == _extract_terms_from_sentence(sentence)
    IN {<<terms[k], MaskStem(sentence, terms[k])>> : k \in DOMAIN terms}

\* xs[:k]
SliceTo(xs, k) ==
    IF k >= 0 THEN SubSeq(xs, 1, Min({k, Len(xs)}))
    ELSE SubSeq(xs, 1, Len(xs) + k)

Max(a, b) == IF a >= b THEN a ELSE b

\* every order list(xs) can give a set
Orderings(S) == {f \in [1..Cardinality(S) -> S] : Range(f) = S}

\* the options of an MCQ item: _distinct_opts, then the re-check of correct
McqOptions(correct, pool_) ==
    UNION { IF correct \in Range(options) THEN {options}
            ELSE Shuffles([options EXCEPT ![1] = correct]) :
            options \in _distinct_opts(correct, pool_) }

\* the distractor pool, for the order list(corpus_terms) came out in
MakePool(order) == Dedup(order \o SEC_TERMS)

(* The pure helpers above, tabulated once over the corpus. *)
TermUniverse == UNION {Range(TermsOf[s]) : s \in SentUniverse}
OrderUniverse == UNION {Orderings(S) : S \in SUBSET TermUniverse}
PoolTable == [order \in OrderUniverse |-> MakePool(order)] @@ <<>>
PoolUniverse == Range(PoolTable)
OptionsTable ==
    [correct \in TermUniverse |->
        [p \in PoolUniverse |-> McqOptions(correct, p)] @@ <<>>] @@ <<>>
NegateTable == [s \in SentUniverse |-> _negate_sentence(s)] @@ <<>>
MaskTable == [s \in SentUniverse |-> _pick_mask_span(s)] @@ <<>>

(* ------------------------------- grader -------------------------------- *)
\* a similarity that takes a text and itself for any two texts
Similarity_NoSelf(ref, resp, e) == e

\* cosine_sim(embed_texts([ref]), embed_texts([resp])) in hundredths; e is
\* what the embedding model makes of two different texts
Similarity(ref, resp, e) == IF ref = resp THEN 100 ELSE e

\* the similarities the embedding model can report, in hundredths
SimLevels == {-10, 44, 45, 90}

\* a TF item answered without regard to None: every response counts by its
\* truth value
TfCorrect_NoneCounts(it, resp) == bool(resp) = bool(it.answer)

\* the tf branch of grade_quiz
TfCorrect(it, resp) == (resp # None) /\ (bool(resp) = bool(it.answer))

\* an MCQ item compared without regard to case whatever the gold answer
McqCorrect_AlwaysUpper(it, resp) ==
    LET gold == Get(it, "answer", PyStr(<<>>)).s
        mine == IF resp # None THEN resp ELSE PyStr(<<>>)
    IN strip(upper(str(mine))) = strip(upper(gold))

\* the mcq branch of grade_quiz
McqCorrect(it, resp) ==
    LET gold == Get(it, "answer", PyStr(<<>>)).s
        mine == IF resp # None THEN resp ELSE PyStr(<<>>)
    IN IF isalpha(gold) /\ Len(gold) <= 4
       THEN strip(upper(str(mine))) = strip(upper(gold))
       ELSE strip(str(mine)) = strip(gold)

\* sim of the open branch of grade_quiz, in hundredths
OpenSim(it, resp, e) ==
    LET ref == Get(it, "answer", PyStr(<<>>)).s
    IN IF resp = None \/ strip(str(resp)) = <<>>
       THEN 0
       ELSE Similarity(ref, str(resp), e)

\* the body of the for loop of grade_quiz: the detail of one (item, response)
GradeItem(it, resp, e) ==
    [question |-> it.q,
     your_answer |-> resp,
     expected |-> Get(it, "answer", PyStr(<<>>)),
     correct |-> CASE it.type = "tf" -> TfCorrect(it, resp)
                   [] it.type = "mcq" -> McqCorrect(it, resp)
                   [] OTHER -> OpenSim(it, resp, e) >= OpenThreshold,
     sources |-> Get(it, "sources", <<>>),
     rationale |-> CASE it.type = "tf" -> <<"True/False comparison">>
                     [] it.type = "mcq" -> <<"Exact option match">>
                     [] OTHER -> <<"Semantic similarity", OpenSim(it, resp, e),
                                   "(threshold 0.58)">>]

\* the pairs of zip(its, resps) whose grading calls the embedding model
Embedded(its, resps) ==
    {i \in 1..Min({Len(its), Len(resps)}) :
        /\ its[i].type \notin {"tf", "mcq"}
        /\ resps[i] # None
        /\ strip(str(resps[i])) # <<>>}

\* a score that counts every detail
ScoreAfter_CountsAll(details, k) == k

\* score after the first k details: score += 1 if correct else 0
RECURSIVE ScoreAfter(_, _)
ScoreAfter(details, k) ==
    IF k = 0 THEN 0
    ELSE ScoreAfter(details, k - 1) + (IF details[k].correct THEN 1 ELSE 0)

\* grade_quiz(its, resps); e[i] is the embedding model's verdict on pair i
grade_quiz(its, resps, e) ==
    LET pairs == Min({Len(its), Len(resps)})
        details == [i \in 1..pairs |->
                      GradeItem(its[i], resps[i], IF i \in DOMAIN e THEN e[i] ELSE 0)]
    IN [score |-> ScoreAfter(details, pairs),
        total |-> Len(its),
        details |-> details]

\* items a caller can hand to the grader
GradeItems == {
    [type |-> "tf", q |-> SentFw, answer |-> PyBool(TRUE), sources |-> <<"a.md">>],
    [type |-> "tf", q |-> NegateTable[SentFw], answer |-> PyBool(FALSE), sources |-> <<"a.md">>],
    [type |-> "mcq", q |-> <<"B","r","o","w","s","e","r","s"," ","u","s","e"," ","_","_","_","_","_",".">>, options |-> << <<"T","L","S">>, <<"V","P","N">>, <<"p","r","o","x","y">>, <<"f","i","r","e","w","a","l","l">> >>,
     answer |-> PyStr(<<"T","L","S">>), sources |-> <<"a.md">>],
    [type |-> "mcq", q |-> <<"A"," ","_","_","_","_","_"," ","f","i","l","t","e","r","s"," ","t","r","a","f","f","i","c",".">>, options |-> << <<"V","P","N">>, <<"f","i","r","e","w","a","l","l">>, <<"p","r","o","x","y">>, <<"I","D","S">> >>,
     answer |-> PyStr(<<"f","i","r","e","w","a","l","l">>), sources |-> <<"a.md">>],
    [type |-> "mcq", q |-> <<"A"," ","_","_","_","_","_"," ","f","i","l","t","e","r","s"," ","t","r","a","f","f","i","c",".">>, options |-> << <<"V","P","N">>, <<"f","i","r","e","w","a","l","l">>, <<"p","r","o","x","y">>, <<"I","D","S">> >>],
    [type |-> "open", q |-> <<"B","r","i","e","f","l","y"," ","e","x","p","l","a","i","n",":"," ">> \o SentFw, answer |-> PyStr(SentFw), sources |-> <<"a.md">>] }

\* responses a caller can hand to the grader
GradeResponses == { None, PyBool(TRUE), PyBool(FALSE),
                    PyStr(<<>>), PyStr(<<" ">>),
                    PyStr(<<"t","l","s">>), PyStr(<<" ","T","L","S"," ">>),
                    PyStr(<<"f","i","r","e","w","a","l","l">>), PyStr(<<"F","i","r","e","w","a","l","l">>) }

\* every sequence over S of length at most k
SeqsUpTo(S, k) == UNION {[1..m -> S] : m \in 0..k}

VARIABLES
    pc,          \* where generate_quiz stands: "start", "while" (about to test
                 \* the loop condition), "body" or "done"
    topic, n,    \* its arguments
    hits,        \* what retrieve() returned
    per_source,  \* (source, curated sentences) of the hits with sentences
    pool,        \* distractor pool
    rr,          \* itertools.cycle: the index next(rr) returns
    items, seen, \* the quiz under construction, the sentences used
    drawn,       \* drawn[i] is the sentence s items[i] was built from
    visits,      \* the sources of the last two draws, oldest first
    quiz,        \* the returned dictionary
    gpc,         \* where grade_quiz stands: "idle", "call" or "graded"
    g_items, responses,  \* its arguments
    grade,       \* the returned dictionary
    apc,         \* where the tutor tab stands: "idle" or "shown"
    a_k, a_hits, \* make_answer's k, what retrieve() returned to it
    a_answer, a_sources,  \* the pair make_answer returned
    a_shown      \* the lines the front end wrote under "Sources used"

gen_vars == <<pc, topic, n, hits, per_source, pool, rr, items, seen, drawn, visits, quiz>>
grade_vars == <<gpc, g_items, responses, grade>>
answer_vars == <<apc, a_k, a_hits, a_answer, a_sources, a_shown>>
vars == <<gen_vars, grade_vars, answer_vars>>

\* no question asked yet
AnswerIdle ==
    /\ apc = "idle"
    /\ a_k = 0
    /\ a_hits = <<>>
    /\ a_answer = <<>>
    /\ a_sources = <<>>
    /\ a_shown = <<>>

NoQuiz == [topic |-> "", items |-> <<>>, returned |-> FALSE]
NoGrade == [score |-> 0, total |-> 0, details |-> <<>>]

Topics == {"", "firewall"}

Init ==
    /\ pc = "start"
    /\ topic \in Topics
    /\ n \in (-1)..MaxN
    /\ hits = <<>>
    /\ per_source = <<>>
    /\ pool = <<>>
    /\ rr = 0
    /\ items = <<>>
    /\ seen = {}
    /\ drawn = <<>>
    /\ visits = <<>>
    /\ quiz = NoQuiz
    /\ gpc = "idle"
    /\ g_items = <<>>
    /\ responses = <<>>
    /\ grade = NoGrade
    /\ AnswerIdle

Returned(its) == [topic |-> IF topic = "" THEN "general" ELSE topic,
                  items |-> its, returned |-> TRUE]

\* the hits as (source, sents), those without sentences kept
PerSource_KeepsEmpty(hs) ==
    [i \in 1..Len(hs) |-> <<Get(hs[i][2], "source", "local"), Curated[hs[i][1]]>>]

\* the hits that yield sentences, as (source, sents)
PerSource(hs) ==
    LET kept == SelectSeq(hs, LAMBDA h : Curated[h[1]] # <<>>)
    IN [i \in 1..Len(kept) |-> <<Get(kept[i][2], "source", "local"), Curated[kept[i][1]]>>]

\* the terms _extract_terms_from_sentence finds in the curated sentences
CorpusTerms(ps) ==
    UNION { UNION {Range(TermsOf[ps[i][2][j]]) : j \in DOMAIN ps[i][2]} : i \in DOMAIN ps }

\* generate_quiz up to the loop: retrieval, curation, distractor pool
Begin ==
    /\ pc = "start"
    /\ \E hs \in HitLists : \E ps \in {PerSource(hs)} :
         /\ Len(hs) <= Max(16, n * 5)
         /\ hits' = hs
         /\ IF hs = <<>> \/ ps = <<>>
            THEN /\ quiz' = Returned(<<>>)
                 /\ pc' = "done"
                 /\ UNCHANGED <<per_source, pool>>
            ELSE /\ per_source' = ps
                 /\ \E corpus_terms \in {CorpusTerms(ps)} :
                      \E order \in Orderings(corpus_terms) :
                         pool' = PoolTable[order]
                 /\ pc' = "while"
                 /\ UNCHANGED quiz
    /\ UNCHANGED <<topic, n, rr, items, seen, drawn, visits, grade_vars, answer_vars>>

\* a TF item that records false whatever the answer
TfItem_AlwaysFalse(q, answer, source) ==
    [type |-> "tf", q |-> q, answer |-> PyBool(FALSE), sources |-> <<source>>]

\* {"type":"tf","q": ...,"answer": ...,"sources":[source]}
TfItem(q, answer, source) ==
    [type |-> "tf", q |-> q, answer |-> PyBool(answer), sources |-> <<source>>]

\* every item the loop body can append for sentence s, given the distractor pool
NewItemsOf(s, source, tmod, pool_) ==
    CASE tmod = 0 ->
           { TfItem(IF make_true THEN s ELSE NegateTable[s], make_true, source) :
               make_true \in BOOLEAN }
      [] tmod = 1 ->
           IF MaskTable[s] = {}
           THEN { TfItem(s, TRUE, source) }
           ELSE UNION { { [type |-> "mcq", q |-> cs[2], options |-> options,
                           answer |-> PyStr(IF isalpha(cs[1]) /\ Len(cs[1]) <= 4
                                            THEN upper(cs[1]) ELSE cs[1]),
                           sources |-> <<source>>] :
                          options \in OptionsTable[cs[1]][pool_] } :
                        cs \in MaskTable[s] }
      [] OTHER ->
           { [type |-> "open", q |-> <<"B","r","i","e","f","l","y"," ","e","x","p","l","a","i","n",":"," ">> \o s, answer |-> PyStr(s),
              sources |-> <<source>>] }

\* the sources a hit of the corpus can name
SourceUniverse == { Get(h[2], "source", "local") : h \in UNION {Range(hs) : hs \in HitLists} }

\* NewItemsOf, tabulated over pools, sentences, sources and item types
NewItemsTable ==
    [p \in PoolUniverse |->
        [s \in SentUniverse |->
            [source \in SourceUniverse |->
                [tmod \in 0..2 |-> NewItemsOf(s, source, tmod, p)] @@ <<>>] @@ <<>>] @@ <<>>] @@ <<>>

\* every item the loop body can append for sentence s
NewItems(s, source, tmod) == NewItemsTable[pool][s][source][tmod]

\* a loop condition that gives up one item short
LoopCondition_StopsEarly == Len(items) + 1 < n /\ Cardinality(seen) < SeenCap

\* a loop condition that lets one item too many in
LoopCondition_OffByOne == Len(items) <= n /\ Cardinality(seen) < SeenCap

\* len(items) < n and len(seen) < 500
LoopCondition == Len(items) < n /\ Cardinality(seen) < SeenCap

\* while len(items) < n and len(seen) < 500: the test holds
EnterBody ==
    /\ pc = "while"
    /\ LoopCondition
    /\ pc' = "body"
    /\ UNCHANGED <<topic, n, hits, per_source, pool, rr, items, seen, drawn, visits, quiz, grade_vars, answer_vars>>

\* the last two entries of xs
LastTwo(xs) == IF Len(xs) <= 2 THEN xs ELSE SubSeq(xs, Len(xs) - 1, Len(xs))

\* a loop body without the test of seen
Draw_NoDedup(sidx, j) ==
    /\ pc = "body"
    /\ sidx = rr
    /\ sidx + 1 \in DOMAIN per_source
    /\ j \in DOMAIN per_source[sidx + 1][2]
    /\ rr' = (rr + 1) % Len(per_source)
    /\ visits' = LastTwo(Append(visits, per_source[sidx + 1][1]))
    /\ LET source == per_source[sidx + 1][1]
           s == per_source[sidx + 1][2][j]
       IN /\ seen' = seen \cup {s}
          /\ drawn' = Append(drawn, s)
          /\ \E it \in NewItems(s, source, Len(items) % 3) :
               items' = Append(items, it)
    /\ pc' = "while"
    /\ UNCHANGED <<topic, n, hits, per_source, pool, quiz, grade_vars, answer_vars>>

\* the body of the while loop, drawing sents[j] of source number sidx
Draw(sidx, j) ==
    /\ pc = "body"
    /\ sidx = rr
    /\ sidx + 1 \in DOMAIN per_source
    /\ j \in DOMAIN per_source[sidx + 1][2]
    /\ rr' = (rr + 1) % Len(per_source)
    /\ visits' = LastTwo(Append(visits, per_source[sidx + 1][1]))
    /\ LET source == per_source[sidx + 1][1]
           s == per_source[sidx + 1][2][j]
       IN IF s \in seen
          THEN UNCHANGED <<items, seen, drawn>>
          ELSE /\ seen' = seen \cup {s}
               /\ drawn' = Append(drawn, s)
               /\ \E it \in NewItems(s, source, Len(items) % 3) :
                    items' = Append(items, it)
    /\ pc' = "while"
    /\ UNCHANGED <<topic, n, hits, per_source, pool, quiz, grade_vars, answer_vars>>

\* the longest curated list of the corpus
MaxSentences == CHOOSE m \in {Len(Curated[d]) : d \in DocUniverse} :
                    \A d \in DocUniverse : Len(Curated[d]) <= m

Body == \E sidx \in 0..(MaxHits - 1) : \E j \in 1..MaxSentences : Draw(sidx, j)

\* the loop condition fails: return {"topic": ..., "items": items[:n]}
Return ==
    /\ pc = "while"
    /\ ~LoopCondition
    /\ quiz' = Returned(SliceTo(items, n))
    /\ pc' = "done"
    /\ UNCHANGED <<topic, n, hits, per_source, pool, rr, items, seen, drawn, visits, grade_vars, answer_vars>>

Next == Begin \/ EnterBody \/ Body \/ Return

Spec == Init /\ [][Next]_vars

\* random.choice draws every sentence of a source again and again
FairSpec ==
    /\ Spec
    /\ WF_vars(Begin) /\ WF_vars(EnterBody) /\ WF_vars(Return)
    /\ \A sidx \in 0..(MaxHits - 1) : \A j \in 1..MaxSentences : SF_vars(Draw(sidx, j))
(* A call of grade_quiz on caller-supplied items and responses. *)
GradeInit ==
    /\ pc = "idle"
    /\ topic = ""
    /\ n = 0
    /\ hits = <<>>
    /\ per_source = <<>>
    /\ pool = <<>>
    /\ rr = 0
    /\ items = <<>>
    /\ seen = {}
    /\ drawn = <<>>
    /\ visits = <<>>
    /\ quiz = NoQuiz
    /\ gpc = "call"
    /\ g_items \in SeqsUpTo(GradeItems, MaxItems)
    /\ responses \in SeqsUpTo(GradeResponses, MaxResponses)
    /\ grade = NoGrade
    /\ AnswerIdle

GradeQuiz ==
    /\ gpc = "call"
    /\ \E e \in [Embedded(g_items, responses) -> SimLevels] :
         grade' = grade_quiz(g_items, responses, e)
    /\ gpc' = "graded"
    /\ UNCHANGED <<gen_vars, g_items, responses, answer_vars>>

GradeNext == GradeQuiz

GradeSpec == GradeInit /\ [][GradeNext]_vars

(* A quiz handed back to the grader with its own answer key. *)
\* the gold answers of the items, in order
AnswerKey(its) == [i \in 1..Len(its) |-> its[i].answer]

\* grade_quiz(quiz["items"], answers) with the answer key as the answers
GradeOwnKey ==
    /\ pc = "done"
    /\ gpc = "idle"
    /\ g_items' = quiz.items
    /\ responses' = AnswerKey(quiz.items)
    /\ \E e \in [Embedded(quiz.items, AnswerKey(quiz.items)) -> SimLevels] :
         grade' = grade_quiz(quiz.items, AnswerKey(quiz.items), e)
    /\ gpc' = "graded"
    /\ UNCHANGED <<gen_vars, answer_vars>>

RoundTripNext == Next \/ GradeOwnKey

RoundTripSpec == Init /\ [][RoundTripNext]_vars

(* ------------------------------ the tutor ------------------------------- *)
\* sep.join(xs)
RECURSIVE JoinWith(_, _)
JoinWith(sep, xs) ==
    IF xs = <<>> THEN <<>>
    ELSE IF Len(xs) = 1 THEN xs[1]
    ELSE xs[1] \o sep \o JoinWith(sep, Tail(xs))

\* str(i) of a natural number
RECURSIVE Str(_)
Str(i) == IF i < 10 THEN <<Digits[i + 1]>>
          ELSE Str(i \div 10) \o <<Digits[(i % 10) + 1]>>

\* the characters of a source name
SourceText ==
    ("a.md" :> <<"a",".","m","d">>) @@ ("b.pdf" :> <<"b",".","p","d","f">>) @@
    ("c.md" :> <<"c",".","m","d">>) @@ ("local" :> <<"l","o","c","a","l">>)

NoMaterials == <<"I"," ","d","o","n","'","t"," ","h","a","v","e"," ","a","n","y"," ","i","n","d","e","x","e","d"," ","m","a","t","e","r","i","a","l","s"," ","y","e","t","."," ","A","d","d"," ","n","o","t","e","s"," ","i","n"," ","d","a","t","a","/"," ","a","n","d"," ","r","u","n"," ","i","n","g","e","s","t",".">>
NoConcise == <<"I"," ","f","o","u","n","d"," ","r","e","l","a","t","e","d"," ","m","a","t","e","r","i","a","l"," ","b","u","t"," ","c","o","u","l","d"," ","n","o","t"," ","e","x","t","r","a","c","t"," ","a"," ","c","o","n","c","i","s","e"," ","a","n","s","w","e","r",".">>

\* st.slider("Number of reference sources to consider", 2, 8, 4): the least k
MinK == 2

\* the chunks the tutor's index answers with
AnswerHits == {HitA, HitB, HitC, HitD, HitE}

\* the ranked lists retrieve() can give make_answer: no chunk comes twice
AnswerHitLists ==
    {hs \in SeqsUpTo(AnswerHits, MaxAnswerHits) :
        \A i, j \in DOMAIN hs : i # j => hs[i] # hs[j]}

\* " ".join([d for d,_ in hits[:k]])
AnswerCtx(hs, k) ==
    LET top == SliceTo(hs, k)
    IN JoinWith(<<" ">>, [i \in 1..Len(top) |-> top[i][1]])

\* [s.strip() for s in re.split(r'(?<=[.!?])\s+', ctx) if s.strip()]
AnswerSentences(ctx) ==
    LET parts == SplitSentences(ctx)
    IN SelectSeq([i \in 1..Len(parts) |-> strip(parts[i])], LAMBDA p : p # <<>>)

\* every value np.argsort(-sims)[:5] can take over m sentences: the
\* similarities decide the order, and any order can come out of them
TopOrders(m) ==
    {f \in [1..Min({5, m}) -> 1..m] : \A i, j \in DOMAIN f : i # j => f[i] # f[j]}

\* the sources of hits[:k], each once, in the order they first appear
AnswerSources(hs, k) ==
    LET top == SliceTo(hs, k)
    IN Dedup([i \in 1..Len(top) |-> Get(top[i][2], "source", "local")])

\* " ".join(f"[{i+1}: {s}]" for i, s in enumerate(sources, start=1)):
\* enumerate hands out i = 1 for the first source
cite_str(srcs) ==
    JoinWith(<<" ">>,
             [j \in 1..Len(srcs) |->
                 <<"[">> \o Str(j + 1) \o <<":", " ">> \o SourceText[srcs[j]] \o <<"]">>])

\* make_answer(query, k) over the hits hs, with top_idx as argsort gives it
make_answer(hs, k, top_idx) ==
    IF hs = <<>> THEN [answer |-> NoMaterials, sources |-> <<>>]
    ELSE LET sentences == AnswerSentences(AnswerCtx(hs, k))
         IN IF sentences = <<>> THEN [answer |-> NoConcise, sources |-> <<>>]
            ELSE LET chosen == [i \in 1..Len(top_idx) |-> sentences[top_idx[i]]]
                     joined == JoinWith(<<" ">>, chosen)
                     srcs == AnswerSources(hs, k)
                 IN [answer |-> (IF joined = <<>> THEN NoConcise ELSE joined)
                                  \o <<"\n","\n","S","o","u","r","c","e","s",":"," ">> \o cite_str(srcs),
                     sources |-> [j \in 1..Len(srcs) |-> [source |-> srcs[j]]]]

\* for i, s in enumerate(sources, start=1): st.write(f"[{i}] {s['source']}")
FrontEndLines(srcs) ==
    [j \in 1..Len(srcs) |->
        <<"[">> \o Str(j) \o <<"]", " ">> \o SourceText[srcs[j].source]]

\* the "Ask" button: make_answer(query, k=k), then the sources expander
Ask ==
    /\ apc = "idle"
    /\ \E k \in MinK..MaxK : \E hs \in AnswerHitLists :
         /\ Len(hs) <= Max(k, 8)
         /\ \E top_idx \in TopOrders(Len(AnswerSentences(AnswerCtx(hs, k)))) :
              LET r == make_answer(hs, k, top_idx)
              IN /\ a_k' = k
                 /\ a_hits' = hs
                 /\ a_answer' = r.answer
                 /\ a_sources' = r.sources
                 /\ a_shown' = FrontEndLines(r.sources)
    /\ apc' = "shown"
    /\ UNCHANGED <<gen_vars, grade_vars>>

AnswerInit == Init /\ topic = "" /\ n = 0

AnswerNext == Ask

AnswerSpec == AnswerInit /\ [][AnswerNext]_vars

(* ------------------------------- claims -------------------------------- *)

\* C1: generate_quiz terminates for every corpus and every n: under fair
\* random choice every call eventually returns, also when the sources hold
\* fewer than n distinct sentences.
C1_Terminates == <>(pc = "done")

\* C2: every MCQ item of a returned quiz has exactly 4 options, pairwise
\* distinct without regard to case, exactly one of which matches the answer
\* without regard to case.
McqWellFormed(it) ==
    /\ Len(it.options) = 4
    /\ \A i, j \in DOMAIN it.options :
         i # j => lower(it.options[i]) # lower(it.options[j])
    /\ Cardinality({i \in DOMAIN it.options :
                      lower(it.options[i]) = lower(it.answer.s)}) = 1

C2_McqOptionsWellFormed ==
    \A i \in DOMAIN quiz.items :
        quiz.items[i].type = "mcq" => McqWellFormed(quiz.items[i])

\* item it is built from sentence s
BuiltFrom(it, s) ==
    CASE it.type = "tf" -> it.q \in {s, NegateTable[s]}
      [] it.type = "mcq" -> \E cs \in MaskTable[s] : it.q = cs[2]
      [] OTHER -> it.answer = PyStr(s)

\* C3: no two items of a returned quiz are built from the same curated
\* sentence: item i is built from the i-th sentence drawn, and the sentences
\* drawn differ pairwise.
C3_NoSentenceTwice ==
    quiz.returned =>
        /\ \A i \in DOMAIN quiz.items : BuiltFrom(quiz.items[i], drawn[i])
        /\ \A i, j \in DOMAIN quiz.items : i # j => drawn[i] # drawn[j]

\* a quiz of two items of the first source although the second source was
\* visited in between: its only sentence had been used already
C3_Witness ==
    /\ quiz.returned
    /\ hits = <<HitA, HitB>>
    /\ Len(quiz.items) = 2
    /\ quiz.items[1].sources = <<"a.md">>
    /\ quiz.items[2].sources = <<"a.md">>

NothingCurated == \A i \in DOMAIN hits : Curated[hits[i][1]] = <<>>

\* C4: when retrieval returns no hits, or no hit yields a curated sentence,
\* generate_quiz returns a quiz without items whose topic is the caller's
\* topic, or "general" for an empty topic, and never enters the loop.
C4_EmptyQuiz ==
    (pc # "start" /\ NothingCurated) =>
        /\ pc = "done"
        /\ quiz.returned
        /\ quiz.items = <<>>
        /\ quiz.topic = (IF topic = "" THEN "general" ELSE topic)
        /\ items = <<>> /\ seen = {} /\ drawn = <<>> /\ rr = 0

C4_Witness ==
    /\ pc = "done"
    /\ hits = <<HitC>>
    /\ topic = ""
    /\ quiz.topic = "general"

\* C5: at every iteration boundary the number of items equals the number of
\* sentences considered and is at most n (for n >= 0), so that the returned
\* sequence has at most n items and items[:n] removes nothing.
C5_ItemsWithinN ==
    /\ pc \in {"while", "done"} => Len(items) = Cardinality(seen)
    /\ (pc \in {"while", "done"} /\ n >= 0) => Len(items) <= n
    /\ (quiz.returned /\ n >= 0) => (quiz.items = items /\ Len(quiz.items) <= n)

C5_Witness ==
    /\ quiz.returned
    /\ n = 3
    /\ Len(quiz.items) = 3

\* C6: the score grade_quiz returns is the number of details flagged
\* correct, and 0 <= score <= total.
C6_ScoreCountsCorrect ==
    gpc = "graded" =>
        /\ grade.score = Cardinality({i \in DOMAIN grade.details : grade.details[i].correct})
        /\ 0 <= grade.score
        /\ grade.score <= grade.total

C6_Witness ==
    /\ gpc = "graded"
    /\ Len(grade.details) = 2
    /\ grade.score = 1
    /\ grade.details[2].correct

\* C7: grade_quiz pairs items and responses by position up to the shorter
\* sequence, emits one detail per pair in order, and reports as total the
\* number of items graded (the number of details).
C7_TotalIsGraded ==
    gpc = "graded" =>
        /\ Len(grade.details) = Min({Len(g_items), Len(responses)})
        /\ \A i \in DOMAIN grade.details :
             /\ grade.details[i].question = g_items[i].q
             /\ grade.details[i].your_answer = responses[i]
        /\ grade.total = Len(grade.details)

\* a null, empty or whitespace-only response
Blank(resp) == resp = None \/ (resp.kind = "str" /\ strip(resp.s) = <<>>)

\* C8: a null or blank response to an item that carries its answer is graded
\* incorrect, for every item type.
C8_BlankIsIncorrect ==
    gpc = "graded" =>
        \A i \in DOMAIN grade.details :
            ("answer" \in DOMAIN g_items[i] /\ Blank(responses[i]))
                => ~grade.details[i].correct

\* C9: a TF item is graded correct iff the response is not null and its
\* boolean value (a bool as it is, a string iff it is not empty) equals the
\* item's answer.
C9_TfGrading ==
    gpc = "graded" =>
        \A i \in DOMAIN grade.details :
            g_items[i].type = "tf" =>
                LET gold == g_items[i].answer.b
                    resp == responses[i]
                IN grade.details[i].correct =
                     CASE resp.kind = "none" -> FALSE
                       [] resp.kind = "bool" -> (resp.b = gold)
                       [] resp.kind = "str" -> ((Len(resp.s) > 0) = gold)

\* a null response to a TF item whose answer is false
C9_Witness ==
    /\ gpc = "graded"
    /\ \E i \in DOMAIN grade.details :
         /\ g_items[i].type = "tf"
         /\ g_items[i].answer = PyBool(FALSE)
         /\ responses[i] = None
         /\ ~grade.details[i].correct

\* the text grade_quiz compares for a response
Given(resp) == IF resp = None THEN <<>> ELSE str(resp)

\* C10: an MCQ item whose gold answer is alphabetic with at most 4
\* characters is graded without regard to case; any other gold answer is
\* compared exactly on the trimmed strings, so that a response differing
\* from it only in case is incorrect.
C10_McqGrading ==
    gpc = "graded" =>
        \A i \in DOMAIN grade.details :
            (g_items[i].type = "mcq" /\ "answer" \in DOMAIN g_items[i]) =>
                LET gold == g_items[i].answer.s
                    mine == strip(Given(responses[i]))
                    correct == grade.details[i].correct
                IN IF isalpha(gold) /\ Len(gold) <= 4
                   THEN correct = (lower(mine) = lower(gold))
                   ELSE /\ correct = (mine = strip(gold))
                        /\ (mine # strip(gold) /\ lower(mine) = lower(strip(gold))) => ~correct

\* gold "TLS" answered "tls" is correct; gold "firewall" answered "Firewall"
\* is not
C10_Witness ==
    /\ gpc = "graded"
    /\ Len(grade.details) = 2
    /\ g_items[1].type = "mcq" /\ "answer" \in DOMAIN g_items[1]
    /\ g_items[1].answer = PyStr(<<"T","L","S">>)
    /\ responses[1] = PyStr(<<"t","l","s">>)
    /\ grade.details[1].correct
    /\ g_items[2].type = "mcq" /\ "answer" \in DOMAIN g_items[2]
    /\ g_items[2].answer = PyStr(<<"f","i","r","e","w","a","l","l">>)
    /\ responses[2] = PyStr(<<"F","i","r","e","w","a","l","l">>)
    /\ ~grade.details[2].correct

\* C11: a quiz of generate_quiz graded with its own answer key as the
\* responses has every item graded correct, so that the score is the number
\* of items; the similarity of an OPEN item's gold answer with itself is 1.0.
C11_RoundTrip ==
    (gpc = "graded" /\ quiz.returned) =>
        /\ Len(grade.details) = Len(quiz.items)
        /\ \A i \in DOMAIN grade.details :
             /\ grade.details[i].correct
             /\ quiz.items[i].type = "open" =>
                  grade.details[i].rationale[2] = 100
        /\ grade.score = Len(quiz.items)

\* a quiz of a TF item with answer false, an MCQ and an OPEN item, graded
C11_Witness ==
    /\ gpc = "graded"
    /\ quiz.returned
    /\ Len(quiz.items) = 3
    /\ quiz.items[1].answer = PyBool(FALSE)
    /\ quiz.items[2].type = "mcq"
    /\ quiz.items[3].type = "open"
    /\ grade.score = 3

\* the curated sentences that contain a vocabulary term
HasTerm ==
    [s \in SentUniverse |-> \E t \in Range(SEC_TERMS) : Contains(lower(s), t)]

\* C12: in a returned quiz the item at 0-based position i is a TF item when
\* i mod 3 = 0; when i mod 3 = 1 an MCQ item if its sentence contains a
\* vocabulary term and otherwise a TF item with answer true whose question
\* is the sentence; when i mod 3 = 2 an OPEN item whose answer is the
\* sentence. Positions count items, so skipped sentences do not advance them.
C12_TypeByPosition ==
    quiz.returned =>
        \A k \in DOMAIN quiz.items :
            LET it == quiz.items[k]
                s == drawn[k]
            IN CASE (k - 1) % 3 = 0 -> it.type = "tf"
                 [] (k - 1) % 3 = 1 ->
                      IF HasTerm[s]
                      THEN it.type = "mcq"
                      ELSE /\ it.type = "tf"
                           /\ it.answer = PyBool(TRUE)
                           /\ it.q = s
                 [] OTHER -> /\ it.type = "open"
                             /\ it.answer = PyStr(s)

\* a quiz whose second slot fell back to a TF item, although a sentence
\* seen before was drawn again on the way
C12_Witness ==
    /\ quiz.returned
    /\ Len(quiz.items) = 3
    /\ drawn[2] = SentPlain
    /\ quiz.items[2].type = "tf"
    /\ quiz.items[3].type = "open"
    /\ rr # Len(quiz.items) % Len(per_source)

\* the readable false variants of sentence s: " not" right after the first
\* token of the anchor list or, without such a token, the prefix
\* "It is not true that " before s with its first letter in lower case
FalseVariants(s) ==
    LET starts == {i \in 1..Len(s) : \E w \in NegationAnchors : WordAt(s, i, w)}
    IN IF starts = {}
       THEN { <<"I","t"," ","i","s"," ","n","o","t"," ","t","r","u","e"," ","t","h","a","t"," ">> \o <<LowerChar(s[1])>> \o SubSeq(s, 2, Len(s)) }
       ELSE { SubSeq(s, 1, e) \o <<" ","n","o","t">> \o SubSeq(s, e + 1, Len(s)) :
                e \in {Min(starts) + Len(w) - 1 : w \in {v \in NegationAnchors : WordAt(s, Min(starts), v)}} }

FalseVariantsTable == [s \in SentUniverse |-> FalseVariants(s)]

\* C13: a TF item with answer false has a question that differs from its
\* sentence and is its false variant; a TF item with answer true has the
\* sentence as its question.
C13_NegationApplied ==
    quiz.returned =>
        \A k \in DOMAIN quiz.items :
            quiz.items[k].type = "tf" =>
                IF quiz.items[k].answer = PyBool(FALSE)
                THEN /\ quiz.items[k].q # drawn[k]
                     /\ quiz.items[k].q \in FalseVariantsTable[drawn[k]]
                     /\ Cardinality(FalseVariantsTable[drawn[k]]) = 1
                ELSE quiz.items[k].q = drawn[k]

\* a false item in the prefix form: its sentence has a verb, "use", but no
\* token of the anchor list
C13_Witness ==
    /\ quiz.returned
    /\ Len(quiz.items) = 1
    /\ quiz.items[1].answer = PyBool(FALSE)
    /\ drawn[1] = SentUse
    /\ quiz.items[1].q = <<"I","t"," ","i","s"," ","n","o","t"," ","t","r","u","e"," ","t","h","a","t"," ","w","e","b"," ","s","e","r","v","e","r","s"," ","u","s","e"," ","T","L","S"," ","t","o"," ","k","e","e","p"," ","u","s","e","r"," ","d","a","t","a"," ","s","a","f","e"," ","o","n"," ","t","h","e"," ","w","a","y"," ","t","o"," ","c","l","i","e","n","t","s",".">>

\* the source identifiers that survive curation
SurvivingSources == {per_source[i][1] : i \in DOMAIN per_source}

\* C14: every surviving source has one slot of the round-robin, so that with
\* at least two distinct sources two consecutive draws never come from the
\* same source, also when several hits share a source.
C14_AlternatingSources ==
    (Cardinality(SurvivingSources) >= 2 /\ Len(visits) = 2) =>
        visits[1] # visits[2]

\* the distinct curated sentences of the surviving sources
DistinctCurated == UNION {Range(per_source[i][2]) : i \in DOMAIN per_source}

EndsWith(s, p) == Len(p) <= Len(s) /\ SubSeq(s, Len(s) - Len(p) + 1, Len(s)) = p

\* the citation block that numbers the returned sources as the front end does
CitedByPosition(srcs) ==
    JoinWith(<<" ">>,
             [j \in 1..Len(srcs) |->
                 <<"[">> \o Str(j) \o <<":", " ">> \o SourceText[srcs[j].source] \o <<"]">>])

\* the answer cites the j-th returned source with the number j
CitationByPosition ==
    EndsWith(a_answer, <<"\n","\n","S","o","u","r","c","e","s",":"," ">> \o CitedByPosition(a_sources))

\* the front end shows the j-th returned source as [j]
FrontEndByPosition ==
    /\ Len(a_shown) = Len(a_sources)
    /\ \A j \in DOMAIN a_shown :
         a_shown[j] = <<"[">> \o Str(j) \o <<"]", " ">> \o SourceText[a_sources[j].source]

\* the position of the first of hits[:k] that names source src
FirstHitOf(src) ==
    Min({i \in 1..Min({a_k, Len(a_hits)}) : Get(a_hits[i][2], "source", "local") = src})

\* the returned sources are those of hits[:k], each once, by first occurrence
SourcesAreFirstOccurrences ==
    /\ {a_sources[j].source : j \in DOMAIN a_sources} =
         {Get(a_hits[i][2], "source", "local") : i \in 1..Min({a_k, Len(a_hits)})}
    /\ \A i, j \in DOMAIN a_sources :
         i < j => /\ a_sources[i].source # a_sources[j].source
                  /\ FirstHitOf(a_sources[i].source) < FirstHitOf(a_sources[j].source)

\* C16: once make_answer has composed an answer, the citation block at its
\* end numbers the returned sources by their 1-based position (the first
\* source is cited as 1), as the front end numbers them [1], [2], ..., and
\* the returned sources are the sources of the top k hits, each once, in the
\* order they first occur.
C16_CitationNumbering ==
    (apc = "shown" /\ a_sources # <<>>) =>
        /\ CitationByPosition
        /\ FrontEndByPosition
        /\ SourcesAreFirstOccurrences

\* the parts of C16 the code keeps: the front end's numbers and the
\* first-occurrence list of sources
C16_Kept ==
    (apc = "shown" /\ a_sources # <<>>) =>
        (FrontEndByPosition /\ SourcesAreFirstOccurrences)

\* three hits, the first two asked for, both of one source
C16_KeptWitness ==
    /\ apc = "shown"
    /\ a_k = 2
    /\ a_hits = <<HitA, HitC, HitB>>
    /\ a_sources = <<[source |-> "a.md"]>>
====
